---- MODULE Spec2Model ----
(***************************************************************************)
(* Model of src/main.py: the FastAPI service that supervises the Node.js   *)
(* WhatsApp backend (ensure_server_running), polls it from a background    *)
(* task (process_watcher) and pushes "login_success" to the registered     *)
(* websockets (ConnectionManager).                                         *)
(*                                                                         *)
(* Scheduling: one asyncio event loop.  A task runs without interruption   *)
(* from one real suspension point (asyncio.sleep, websocket accept /       *)
(* receive / send) to the next, so every action below is the code between  *)
(* two suspension points of one task.  requests.get, os.kill, os.remove    *)
(* and subprocess.Popen block the loop and are not suspension points.      *)
(***************************************************************************)
EXTENDS Integers, Sequences, FiniteSets, TLC

\* Bounds of the model.
MaxSpawns == 3      \* children the model lets subprocess.Popen create
MaxReqs == 2        \* HTTP request handlers that may be in flight together
MaxConns == 2       \* websocket connections over the life of the service

VARIABLES
    wa_process,     \* main.py:35, 0 is None, k > 0 the Popen object of child k
    child,          \* child k: "none" (not spawned) | "live" | "stopped" (sent
                    \* SIGTERM by the service, or exited on its own)
    spawned,        \* number of successful subprocess.Popen calls so far
    reachable,      \* would requests.get(NODE_API/status) answer 200 now
    qr,             \* static/whatsapp_qr.png exists
    flag,           \* static/login_success.flag exists
    pc,             \* position of every task (see the actions)
    resp,           \* what the last request served by a handler answered
    kind,           \* endpoint of the running / last request of a handler
    ens,            \* what ensure_server_running gave that request: "none"
                    \* (not called, or still inside) | "true" | "false" | "raised"
    backend,        \* the call that request made to the Node backend: "none"
                    \* | "ok" | "failed"
    snap,           \* body of the last answer of GET /status
    snapNo,         \* parity of the number of answers of GET /status
    active_connections, \* main.py:21, the list of registered websockets
    open,           \* websockets whose client is still connected
    wsPc,           \* position of the /ws handler of every websocket
    bPos,           \* list iterator of the for loop of broadcast (1-based)
    bState,         \* "idle" | "running" | "returned" | "raised"
    bSnap,          \* websockets registered when broadcast was called
    bGot,           \* websockets the running / last broadcast delivered to
    bFail,          \* websockets whose send_text raised in that broadcast
    wLogged,        \* logged_in as read by the running / last watcher iteration
    wLast,          \* "none" | "ok" | "error": how the last iteration ended
    wRunning,       \* server_running of the iteration suspended in broadcast
    wEnsured,       \* the running / last iteration called ensure_server_running
    mgrCall         \* the last direct call of a ConnectionManager method

supVars == <<wa_process, child, spawned, qr, flag>>
reqVars == <<resp, kind, ens, backend, snap, snapNo>>
callVars == <<pc, reqVars>>
regVars == <<active_connections, open, wsPc>>
bcastVars == <<bPos, bState, bSnap, bGot, bFail>>
watchVars == <<wLogged, wLast, wRunning, wEnsured>>
vars == <<wa_process, child, spawned, reachable, qr, flag, pc, resp, kind,
          ens, backend, snap, snapNo, active_connections, open, wsPc, bPos,
          bState, bSnap, bGot, bFail, wLogged, wLast, wRunning, wEnsured,
          mgrCall>>

Startup == <<"startup", 0>>
Watcher == <<"watcher", 0>>
Reqs == {<<"req", i>> : i \in 1..MaxReqs}
Tasks == {Startup, Watcher} \cup Reqs
Children == 1..MaxSpawns
Conns == 1..MaxConns

\* No answer of GET /status yet.
NoSnap == [logged_in |-> FALSE, qr_available |-> FALSE, server_running |-> FALSE]

NoCall == [op |-> "none", ws |-> 0, present |-> FALSE, raised |-> FALSE,
           before |-> <<>>]

\* The state right after the module is imported: no child, no handle, an empty
\* registry, no task started.  The backend may already answer and the two
\* artifacts may be left over from an earlier run.
Init ==
    /\ wa_process = 0
    /\ child = [k \in Children |-> "none"]
    /\ spawned = 0
    /\ reachable \in BOOLEAN
    /\ qr \in BOOLEAN
    /\ flag \in BOOLEAN
    /\ pc = [t \in Tasks |-> IF t = Startup THEN "init"
                             ELSE IF t = Watcher THEN "none" ELSE "idle"]
    /\ resp = [t \in Reqs |-> "none"]
    /\ kind = [t \in Reqs |-> "none"]
    /\ ens = [t \in Reqs |-> "none"]
    /\ backend = [t \in Reqs |-> "none"]
    /\ snap = NoSnap
    /\ snapNo = 0
    /\ active_connections = <<>>
    /\ open = {}
    /\ wsPc = [c \in Conns |-> "none"]
    /\ bPos = 1
    /\ bState = "idle"
    /\ bSnap = {}
    /\ bGot = {}
    /\ bFail = {}
    /\ wLogged = FALSE
    /\ wLast = "none"
    /\ wRunning = FALSE
    /\ wEnsured = FALSE
    /\ mgrCall = NoCall

----------------------------------------------------------------------------
\* Probes (main.py:37-52).  Every failure of the request is folded into False.
check_node_server == reachable
check_login == flag
check_qr == qr

----------------------------------------------------------------------------
\* ensure_server_running (main.py:54-87).  out is where the call stands when
\* the step ends: "kill" (in asyncio.sleep(1)), "settle" (in asyncio.sleep(3)),
\* or returned "true" / "false", or "raised" (subprocess.Popen raised).

\* A spawn that leaves the artifacts of the previous child where they are.
SpawnOnly(out) ==
    /\ UNCHANGED <<qr, flag>>
    /\ \/ /\ spawned < MaxSpawns
          /\ spawned' = spawned + 1
          /\ child' = [child EXCEPT ![spawned + 1] = "live"]
          /\ wa_process' = spawned + 1
          /\ out = "settle"
       \/ /\ wa_process' = 0
          /\ UNCHANGED <<child, spawned>>
          /\ out = "raised"

\* main.py:72-84: remove the two artifacts, then Popen.  The handle is None
\* here; it stays None when Popen raises.
CleanAndSpawn(out) ==
    /\ qr' = FALSE
    /\ flag' = FALSE
    /\ \/ /\ spawned < MaxSpawns
          /\ spawned' = spawned + 1
          /\ child' = [child EXCEPT ![spawned + 1] = "live"]
          /\ wa_process' = spawned + 1
          /\ out = "settle"
       \/ /\ wa_process' = 0
          /\ UNCHANGED <<child, spawned>>
          /\ out = "raised"

\* A call that restarts the child whatever the probe says.
EnsureEnterNoProbe(up, out) ==
    \/ /\ wa_process # 0
       /\ child' = [child EXCEPT ![wa_process] = "stopped"]
       /\ out = "kill"
       /\ UNCHANGED <<wa_process, spawned, qr, flag>>
    \/ /\ wa_process # 0 => child[wa_process] = "stopped"
       /\ CleanAndSpawn(out)

\* main.py:58-84 up to the first suspension; up is the result of the probe.
\* os.kill succeeds while the pid exists (second disjunct); once the child has
\* stopped and been reaped it raises ProcessLookupError, and the call goes on
\* to spawn without sleeping (third disjunct).
EnsureEnter(up, out) ==
    \/ /\ up
       /\ out = "true"
       /\ UNCHANGED supVars
    \/ /\ ~up
       /\ wa_process # 0
       /\ child' = [child EXCEPT ![wa_process] = "stopped"]
       /\ out = "kill"
       /\ UNCHANGED <<wa_process, spawned, qr, flag>>
    \/ /\ ~up
       /\ wa_process # 0 => child[wa_process] = "stopped"
       /\ CleanAndSpawn(out)

\* main.py:66-84: the call wakes from asyncio.sleep(1), clears the handle and
\* goes on to spawn.
EnsureAfterKill(out) == CleanAndSpawn(out)

\* main.py:84-85: the call wakes from asyncio.sleep(3) and returns the probe.
EnsureAfterSettle(out) ==
    /\ out = (IF check_node_server THEN "true" ELSE "false")
    /\ UNCHANGED supVars

Outs == {"true", "false", "raised", "kill", "settle"}

Suspended(out) == out \in {"kill", "settle"}

\* A task t suspended inside ensure_server_running is resumed.
EnsureResume(t, out) ==
    \/ /\ pc[t] = "kill"
       /\ EnsureAfterKill(out)
    \/ /\ pc[t] = "settle"
       /\ EnsureAfterSettle(out)

----------------------------------------------------------------------------
\* ConnectionManager (main.py:19-32).

Range(seq) == {seq[i] : i \in 1..Len(seq)}

IndexOf(seq, x) == CHOOSE i \in 1..Len(seq) : seq[i] = x /\ \A j \in 1..(i - 1) : seq[j] # x

\* list.pop(): drops the last element, whatever x is.
ListDropLast(seq, x) == SubSeq(seq, 1, Len(seq) - 1)

\* list.remove(x): drops the first occurrence of x.
ListRemove(seq, x) ==
    LET i == IndexOf(seq, x)
    IN  SubSeq(seq, 1, i - 1) \o SubSeq(seq, i + 1, Len(seq))

\* ConnectionManager.connect, after the accept: append.
ManagerConnect(ws) == active_connections' = Append(active_connections, ws)

\* ConnectionManager.disconnect: list.remove raises ValueError when ws is not in
\* the list, and then leaves the list as it is.
DisconnectRaises(ws) == ws \notin Range(active_connections)

ManagerDisconnect(ws) ==
    active_connections' = IF DisconnectRaises(ws) THEN active_connections
                          ELSE ListRemove(active_connections, ws)

\* websocket.send_text / send_json raise once the client is gone.
SendRaises(ws) == ws \notin open

----------------------------------------------------------------------------
\* process_watcher (main.py:89-111).

\* An except clause that does not catch the exception: the task ends.
WatcherExceptUncaught == "dead"

\* main.py:108-111: the except clause of the loop body catches every Exception,
\* prints it, and the loop goes on to asyncio.sleep(5).
WatcherExcept == "sleep"

\* Where the watcher stands after a step of ensure_server_running or of
\* broadcast that ended as out.
WatcherNext(out) ==
    IF Suspended(out) THEN out
    ELSE IF out = "raised" THEN WatcherExcept
    ELSE "sleep"

WatcherLast(out) ==
    IF Suspended(out) THEN wLast
    ELSE IF out = "raised" THEN "error" ELSE "ok"

\* ConnectionManager.broadcast (main.py:30-32): the for loop, resumed with its
\* list iterator at position pos, up to the next suspension (inside send_text
\* of the websocket at pos) or to the end of the call.  The iterator reads the
\* list as it is now.
BroadcastLoop(pos, got, out) ==
    IF pos > Len(active_connections)
    THEN /\ out = "returned"
         /\ bState' = "returned"
         /\ bPos' = 1
         /\ bGot' = got
         /\ bFail' = {}
    ELSE LET ws == active_connections[pos]
         IN  IF SendRaises(ws)
             THEN /\ out = "raised"
                  /\ bState' = "raised"
                  /\ bPos' = 1
                  /\ bGot' = got
                  /\ bFail' = {ws}
             ELSE /\ out = "send"
                  /\ bState' = "running"
                  /\ bPos' = pos + 1
                  /\ bGot' = got \cup {ws}
                  /\ bFail' = {}

BcastOuts == {"returned", "raised", "send"}

\* A restart condition with "or" in place of "and".
ShouldEnsureEither(server_running, logged_in) == ~server_running \/ ~logged_in

\* A restart condition without the login test.
ShouldEnsureProbeOnly(server_running, logged_in) == ~server_running

\* main.py:105: the condition a restart is decided on: the probe failed and
\* there was no login flag.
ShouldEnsure(server_running, logged_in) == ~server_running /\ ~logged_in

\* main.py:104-111: the rest of the loop body after the broadcast, with the two
\* locals read at the top of the iteration.  The probe inside
\* ensure_server_running is a second request: up is its answer.
WatcherCheck(server_running, logged_in) ==
    IF ShouldEnsure(server_running, logged_in)
    THEN \E up \in BOOLEAN, out \in Outs :
             /\ reachable' = up
             /\ EnsureEnter(up, out)
             /\ pc' = [pc EXCEPT ![Watcher] = WatcherNext(out)]
             /\ wLast' = WatcherLast(out)
             /\ wEnsured' = TRUE
    ELSE /\ pc' = [pc EXCEPT ![Watcher] = "sleep"]
         /\ wLast' = "ok"
         /\ wEnsured' = FALSE
         /\ UNCHANGED <<supVars, reachable>>

\* The loop body after a step of broadcast that ended as out.
WatcherAfterSend(server_running, logged_in, out) ==
    IF out = "send"
    THEN /\ pc' = [pc EXCEPT ![Watcher] = "send"]
         /\ wRunning' = server_running
         /\ wEnsured' = FALSE
         /\ UNCHANGED <<supVars, reachable, wLast>>
    ELSE IF out = "raised"
    THEN /\ pc' = [pc EXCEPT ![Watcher] = WatcherExcept]
         /\ wLast' = "error"
         /\ wRunning' = FALSE
         /\ wEnsured' = FALSE
         /\ UNCHANGED <<supVars, reachable>>
    ELSE /\ WatcherCheck(server_running, logged_in)
         /\ wRunning' = FALSE

\* One iteration of the loop body, from the wake-up to its first suspension.
WatcherIter ==
    /\ pc[Startup] # "crashed"
    /\ pc[Watcher] = "sleep"
    /\ wLogged' = check_login
    /\ IF check_login
       THEN /\ \E out \in BcastOuts :
                 /\ BroadcastLoop(1, {}, out)
                 /\ WatcherAfterSend(check_node_server, check_login, out)
            /\ bSnap' = Range(active_connections)
       ELSE /\ WatcherCheck(check_node_server, check_login)
            /\ wRunning' = FALSE
            /\ bState' = "idle"
            /\ bPos' = 1
            /\ bSnap' = {}
            /\ bGot' = {}
            /\ bFail' = {}
    /\ UNCHANGED <<reqVars, regVars, mgrCall>>

\* The send_text the broadcast was suspended in completes; the loop goes on.
WatcherSendDone ==
    /\ pc[Startup] # "crashed"
    /\ pc[Watcher] = "send"
    /\ \E out \in BcastOuts :
          /\ BroadcastLoop(bPos, bGot, out)
          /\ WatcherAfterSend(wRunning, wLogged, out)
    /\ UNCHANGED <<reqVars, regVars, bSnap, wLogged, mgrCall>>

\* The watcher wakes inside ensure_server_running.
WatcherEnsureResume ==
    /\ pc[Startup] # "crashed"
    /\ pc[Watcher] \in {"kill", "settle"}
    /\ \E out \in Outs :
          /\ EnsureResume(Watcher, out)
          /\ pc' = [pc EXCEPT ![Watcher] = WatcherNext(out)]
          /\ wLast' = WatcherLast(out)
    /\ UNCHANGED <<reachable, reqVars, regVars, bcastVars, wLogged, wRunning,
                   wEnsured, mgrCall>>

----------------------------------------------------------------------------
\* startup_event (main.py:138-144).  An exception out of the startup handler
\* makes the server give up its start: the service is gone ("crashed").

StartupNext(out) ==
    IF Suspended(out) THEN out
    ELSE IF out = "raised" THEN "crashed"
    ELSE "done"

\* create_task(process_watcher()), then ensure_server_running() up to its
\* first suspension.  The watcher runs its first iteration once this task
\* suspends or ends.
StartupEvent ==
    /\ pc[Startup] = "init"
    /\ \E out \in Outs :
          /\ EnsureEnter(check_node_server, out)
          /\ pc' = [pc EXCEPT ![Startup] = StartupNext(out), ![Watcher] = "sleep"]
    /\ UNCHANGED <<reachable, reqVars, regVars, bcastVars, watchVars, mgrCall>>

StartupResume ==
    /\ pc[Startup] \in {"kill", "settle"}
    /\ \E out \in Outs :
          /\ EnsureResume(Startup, out)
          /\ pc' = [pc EXCEPT ![Startup] = StartupNext(out)]
    /\ UNCHANGED <<reachable, reqVars, regVars, bcastVars, watchVars, mgrCall>>

\* Requests are served once the startup handler has returned.
Serving == pc[Startup] = "done"

----------------------------------------------------------------------------
\* GET /start (main.py:146-151).  An exception out of the handler is answered
\* 500 by the framework.

StartLoginResponse(out) ==
    IF out = "true" THEN "200 initialized"
    ELSE IF out = "false" THEN "200 error"
    ELSE "500"

ReqNext(out) == IF Suspended(out) THEN out ELSE "idle"

\* What ensure_server_running has given its caller when a step ended as out.
EnsOf(out) == IF Suspended(out) THEN "none" ELSE out

StartLogin(r) ==
    /\ Serving
    /\ pc[r] = "idle"
    /\ \E out \in Outs :
          /\ EnsureEnter(check_node_server, out)
          /\ pc' = [pc EXCEPT ![r] = ReqNext(out)]
          /\ ens' = [ens EXCEPT ![r] = EnsOf(out)]
          /\ resp' = [resp EXCEPT ![r] = IF Suspended(out) THEN "none"
                                         ELSE StartLoginResponse(out)]
    /\ kind' = [kind EXCEPT ![r] = "start"]
    /\ backend' = [backend EXCEPT ![r] = "none"]
    /\ UNCHANGED <<reachable, snap, snapNo, regVars, bcastVars, watchVars,
                   mgrCall>>

StartLoginResume(r) ==
    /\ Serving
    /\ kind[r] = "start"
    /\ pc[r] \in {"kill", "settle"}
    /\ \E out \in Outs :
          /\ EnsureResume(r, out)
          /\ pc' = [pc EXCEPT ![r] = ReqNext(out)]
          /\ ens' = [ens EXCEPT ![r] = EnsOf(out)]
          /\ resp' = [resp EXCEPT ![r] = IF Suspended(out) THEN "none"
                                         ELSE StartLoginResponse(out)]
    /\ UNCHANGED <<reachable, kind, backend, snap, snapNo, regVars, bcastVars,
                   watchVars, mgrCall>>

----------------------------------------------------------------------------
\* GET /status (main.py:168-179).  The handler has no suspension point.

\* A status body that takes server_running from the handle, not from a probe.
StatusFromHandle ==
    [logged_in |-> check_login, qr_available |-> check_qr,
     server_running |-> wa_process # 0]

\* main.py:171-179: the three checks and the body built of them.
StatusSnapshot ==
    [logged_in |-> check_login, qr_available |-> check_qr,
     server_running |-> check_node_server]

GetStatus(r) ==
    /\ Serving
    /\ pc[r] = "idle"
    /\ snap' = StatusSnapshot
    /\ snapNo' = 1 - snapNo
    /\ resp' = [resp EXCEPT ![r] = "200 status"]
    /\ kind' = [kind EXCEPT ![r] = "status"]
    /\ ens' = [ens EXCEPT ![r] = "none"]
    /\ backend' = [backend EXCEPT ![r] = "none"]
    /\ UNCHANGED <<supVars, reachable, pc, regVars, bcastVars, watchVars,
                   mgrCall>>

----------------------------------------------------------------------------
\* GET /qr (main.py:153-166).

\* main.py:160-166 after a step of ensure_server_running that ended as out: on
\* true the handler goes to asyncio.sleep(2) ("qrwait"), on false it raises
\* 404 at once, and an exception out of the call is answered 500.
QrAfterEnsure(r, out) ==
    /\ pc' = [pc EXCEPT ![r] = IF Suspended(out) THEN out
                                ELSE IF out = "true" THEN "qrwait" ELSE "idle"]
    /\ ens' = [ens EXCEPT ![r] = EnsOf(out)]
    /\ resp' = [resp EXCEPT ![r] = IF out = "false" THEN "404"
                                   ELSE IF out = "raised" THEN "500" ELSE "none"]

GetQr(r) ==
    /\ Serving
    /\ pc[r] = "idle"
    /\ kind' = [kind EXCEPT ![r] = "qr"]
    /\ backend' = [backend EXCEPT ![r] = "none"]
    /\ IF check_qr
       THEN /\ resp' = [resp EXCEPT ![r] = "200 qr"]
            /\ ens' = [ens EXCEPT ![r] = "none"]
            /\ UNCHANGED <<supVars, pc>>
       ELSE \E out \in Outs :
                /\ EnsureEnter(check_node_server, out)
                /\ QrAfterEnsure(r, out)
    /\ UNCHANGED <<reachable, snap, snapNo, regVars, bcastVars, watchVars,
                   mgrCall>>

GetQrResume(r) ==
    /\ Serving
    /\ kind[r] = "qr"
    /\ pc[r] \in {"kill", "settle"}
    /\ \E out \in Outs :
          /\ EnsureResume(r, out)
          /\ QrAfterEnsure(r, out)
    /\ UNCHANGED <<reachable, kind, backend, snap, snapNo, regVars, bcastVars,
                   watchVars, mgrCall>>

\* main.py:162-166: asyncio.sleep(2) ends, the image is looked up again.
GetQrWaitDone(r) ==
    /\ Serving
    /\ kind[r] = "qr"
    /\ pc[r] = "qrwait"
    /\ pc' = [pc EXCEPT ![r] = "idle"]
    /\ resp' = [resp EXCEPT ![r] = IF check_qr THEN "200 qr" ELSE "404"]
    /\ UNCHANGED <<supVars, reachable, kind, ens, backend, snap, snapNo,
                   regVars, bcastVars, watchVars, mgrCall>>

----------------------------------------------------------------------------
\* POST /send-message, GET /chats, GET /chats/{contact} (main.py:181-226): the
\* three handlers have one shape.

\* A gate that lets the request through whenever ensure_server_running
\* returned, true or false.
ProxyCallsOnReturn(out) == out \in {"true", "false"}

\* main.py:184, 201, 214: the backend is called when ensure_server_running
\* returned true.
ProxyCalls(out) == out = "true"

\* The answer once ensure_server_running has ended as out and the backend
\* call, if one was made, as call: 503 from the gate, 500 for a failed call
\* (or for an exception out of ensure_server_running), the backend's JSON
\* otherwise.
ProxyResponse(out, call) ==
    IF call = "ok" THEN "200 json"
    ELSE IF call = "failed" THEN "500"
    ELSE IF out = "false" THEN "503"
    ELSE IF out = "raised" THEN "500" ELSE "none"

ProxyAfterEnsure(r, out) ==
    /\ pc' = [pc EXCEPT ![r] = ReqNext(out)]
    /\ ens' = [ens EXCEPT ![r] = EnsOf(out)]
    /\ \E call \in {"none", "ok", "failed"} :
          /\ (call # "none") <=> ProxyCalls(out)
          /\ backend' = [backend EXCEPT ![r] = call]
          /\ resp' = [resp EXCEPT ![r] = ProxyResponse(out, call)]

Proxy(r) ==
    /\ Serving
    /\ pc[r] = "idle"
    /\ kind' = [kind EXCEPT ![r] = "proxy"]
    /\ \E out \in Outs :
          /\ EnsureEnter(check_node_server, out)
          /\ ProxyAfterEnsure(r, out)
    /\ UNCHANGED <<reachable, snap, snapNo, regVars, bcastVars, watchVars,
                   mgrCall>>

SendMessage(r) == Proxy(r)

ListChats(r) == Proxy(r)

GetChatHistory(r) == Proxy(r)

ProxyResume(r) ==
    /\ Serving
    /\ kind[r] = "proxy"
    /\ pc[r] \in {"kill", "settle"}
    /\ \E out \in Outs :
          /\ EnsureResume(r, out)
          /\ ProxyAfterEnsure(r, out)
    /\ UNCHANGED <<reachable, kind, snap, snapNo, regVars, bcastVars,
                   watchVars, mgrCall>>

----------------------------------------------------------------------------
\* websocket_endpoint (main.py:113-136), one handler per websocket ws.

\* manager.connect: the handshake completes and ws is appended; the handler
\* then waits in receive_text.
WsConnect(ws) ==
    /\ Serving
    /\ wsPc[ws] = "none"
    /\ ManagerConnect(ws)
    /\ open' = open \cup {ws}
    /\ wsPc' = [wsPc EXCEPT ![ws] = "recv"]
    /\ UNCHANGED <<supVars, reachable, callVars, bcastVars, watchVars, mgrCall>>

\* receive_text returns a message; the three checks run and send_json is
\* called.  The client may be gone by then (gone): send_json raises, either
\* WebSocketDisconnect (wsd), which the handler catches and answers with
\* manager.disconnect, or another exception, which ends the handler as it is.
WsReceive(ws) ==
    /\ Serving
    /\ wsPc[ws] = "recv"
    /\ ws \in open
    /\ \E gone \in BOOLEAN, wsd \in BOOLEAN :
          IF ~gone
          THEN /\ wsPc' = [wsPc EXCEPT ![ws] = "throttle"]
               /\ UNCHANGED <<open, active_connections>>
          ELSE /\ open' = open \ {ws}
               /\ IF wsd
                  THEN /\ ManagerDisconnect(ws)
                       /\ wsPc' = [wsPc EXCEPT ![ws] = "ended"]
                  ELSE /\ wsPc' = [wsPc EXCEPT ![ws] = "error"]
                       /\ UNCHANGED active_connections
    /\ UNCHANGED <<supVars, reachable, callVars, bcastVars, watchVars, mgrCall>>

\* asyncio.sleep(0.5) ends; back to receive_text.
WsThrottleDone(ws) ==
    /\ Serving
    /\ wsPc[ws] = "throttle"
    /\ wsPc' = [wsPc EXCEPT ![ws] = "recv"]
    /\ UNCHANGED <<supVars, reachable, callVars, active_connections, open,
                   bcastVars, watchVars, mgrCall>>

\* receive_text raises WebSocketDisconnect: manager.disconnect(ws).
WsDisconnect(ws) ==
    /\ Serving
    /\ wsPc[ws] = "recv"
    /\ ws \notin open
    /\ ManagerDisconnect(ws)
    /\ wsPc' = [wsPc EXCEPT ![ws] = "ended"]
    /\ UNCHANGED <<supVars, reachable, callVars, open, bcastVars, watchVars,
                   mgrCall>>

----------------------------------------------------------------------------
\* The environment: the backend, the child processes, the clients.

Alive == pc[Startup] # "crashed"

\* The backend starts or stops answering its status endpoint.
EnvBackend ==
    /\ Alive
    /\ reachable' = ~reachable
    /\ UNCHANGED <<supVars, callVars, regVars, bcastVars, watchVars, mgrCall>>

\* The child the handle refers to exits on its own.  The exit of a child the
\* service holds no handle of is nothing the service can observe.
EnvChildExit(k) ==
    /\ Alive
    /\ wa_process = k
    /\ child[k] = "live"
    /\ child' = [child EXCEPT ![k] = "stopped"]
    /\ UNCHANGED <<wa_process, spawned, qr, flag, reachable, callVars, regVars,
                   bcastVars, watchVars, mgrCall>>

\* The backend writes the QR image.
EnvQr ==
    /\ Alive
    /\ ~qr
    /\ qr' = TRUE
    /\ UNCHANGED <<wa_process, child, spawned, flag, reachable, callVars,
                   regVars, bcastVars, watchVars, mgrCall>>

\* The backend writes the login flag.
EnvFlag ==
    /\ Alive
    /\ ~flag
    /\ flag' = TRUE
    /\ UNCHANGED <<wa_process, child, spawned, qr, reachable, callVars,
                   regVars, bcastVars, watchVars, mgrCall>>

\* The backend writes one of the two artifacts.
EnvArtifact == EnvQr \/ EnvFlag

\* A client goes away.
EnvClientClose(ws) ==
    /\ Alive
    /\ ws \in open
    /\ open' = open \ {ws}
    /\ UNCHANGED <<supVars, reachable, callVars, active_connections, wsPc,
                   bcastVars, watchVars, mgrCall>>

----------------------------------------------------------------------------
\* The service with HTTP clients and no websocket client.
Next ==
    \/ StartupEvent
    \/ StartupResume
    \/ WatcherIter
    \/ WatcherEnsureResume
    \/ \E r \in Reqs : StartLogin(r)
    \/ \E r \in Reqs : StartLoginResume(r)
    \/ EnvBackend
    \/ \E k \in Children : EnvChildExit(k)
    \/ EnvArtifact

Spec == Init /\ [][Next]_vars

\* The service with websocket clients and no HTTP request.  No task of this
\* specification reads the QR image, so the environment only writes the flag.
WsNext ==
    \/ StartupEvent
    \/ StartupResume
    \/ WatcherIter
    \/ WatcherSendDone
    \/ WatcherEnsureResume
    \/ \E ws \in Conns : WsConnect(ws)
    \/ \E ws \in Conns : WsReceive(ws)
    \/ \E ws \in Conns : WsThrottleDone(ws)
    \/ \E ws \in Conns : WsDisconnect(ws)
    \/ EnvBackend
    \/ \E k \in Children : EnvChildExit(k)
    \/ EnvFlag
    \/ \E ws \in Conns : EnvClientClose(ws)

WsSpec == Init /\ [][WsNext]_vars

\* The service with no client at all: the startup handler, the watcher and the
\* environment.  The event loop runs every task that is ready, so the steps of
\* the two tasks are weakly fair; nothing is assumed of the environment.
NoUserNext ==
    \/ StartupEvent
    \/ StartupResume
    \/ WatcherIter
    \/ WatcherEnsureResume
    \/ EnvBackend
    \/ \E k \in Children : EnvChildExit(k)
    \/ EnvArtifact

NoUserFair ==
    /\ WF_vars(StartupEvent)
    /\ WF_vars(StartupResume)
    /\ WF_vars(WatcherIter)
    /\ WF_vars(WatcherEnsureResume)

NoUserSpec == Init /\ [][NoUserNext]_vars /\ NoUserFair

\* The service polled by GET /status.
StatusNext ==
    \/ StartupEvent
    \/ StartupResume
    \/ WatcherIter
    \/ WatcherEnsureResume
    \/ \E r \in Reqs : GetStatus(r)
    \/ EnvBackend
    \/ \E k \in Children : EnvChildExit(k)
    \/ EnvArtifact

StatusSpec == Init /\ [][StatusNext]_vars

\* The service asked for the QR image.
QrNext ==
    \/ StartupEvent
    \/ StartupResume
    \/ WatcherIter
    \/ WatcherEnsureResume
    \/ \E r \in Reqs : GetQr(r)
    \/ \E r \in Reqs : GetQrResume(r)
    \/ \E r \in Reqs : GetQrWaitDone(r)
    \/ EnvBackend
    \/ \E k \in Children : EnvChildExit(k)
    \/ EnvArtifact

QrSpec == Init /\ [][QrNext]_vars

\* The service used as a proxy of the backend.  No task of this specification
\* reads the QR image, so the environment only writes the flag.
ProxyNext ==
    \/ StartupEvent
    \/ StartupResume
    \/ WatcherIter
    \/ WatcherEnsureResume
    \/ \E r \in Reqs : SendMessage(r)
    \/ \E r \in Reqs : ListChats(r)
    \/ \E r \in Reqs : GetChatHistory(r)
    \/ \E r \in Reqs : ProxyResume(r)
    \/ EnvBackend
    \/ \E k \in Children : EnvChildExit(k)
    \/ EnvFlag

ProxySpec == Init /\ [][ProxyNext]_vars

\* ConnectionManager called directly, as a unit test of the class does: any
\* websocket may be passed to disconnect, registered or not.
MgrConnect(ws) ==
    /\ ws \notin Range(active_connections)
    /\ mgrCall' = [op |-> "connect", ws |-> ws, present |-> FALSE,
                   raised |-> FALSE, before |-> active_connections]
    /\ ManagerConnect(ws)
    /\ open' = open \cup {ws}
    /\ UNCHANGED <<supVars, reachable, callVars, wsPc, bcastVars, watchVars>>

MgrDisconnect(ws) ==
    /\ mgrCall' = [op |-> "disconnect", ws |-> ws,
                   present |-> ws \in Range(active_connections),
                   raised |-> DisconnectRaises(ws), before |-> active_connections]
    /\ ManagerDisconnect(ws)
    /\ UNCHANGED <<supVars, reachable, callVars, open, wsPc, bcastVars, watchVars>>

MgrClientClose(ws) ==
    /\ ws \in open
    /\ open' = open \ {ws}
    /\ UNCHANGED <<supVars, reachable, callVars, active_connections, wsPc,
                   bcastVars, watchVars, mgrCall>>

MgrNext ==
    \/ \E ws \in Conns : MgrConnect(ws)
    \/ \E ws \in Conns : MgrDisconnect(ws)
    \/ \E ws \in Conns : MgrClientClose(ws)

MgrSpec == Init /\ [][MgrNext]_vars

----------------------------------------------------------------------------
\* The claims.

\* A task is inside steps 2-3 of ensure_server_running: between its failed
\* probe and its post-settle probe.
InSection(t) == pc[t] \in {"kill", "settle"}

\* Children the call in progress of task t has spawned so far: a call waits in
\* asyncio.sleep(3) right after its one Popen.
CallSpawns(t) == IF pc[t] = "settle" THEN 1 ELSE 0

Registered == Range(active_connections)

\* C1: at most one call of ensure_server_running is inside the terminate /
\* clear-artifacts / spawn / settle section at a time.
C1_NoOverlappingSpawnSections ==
    Cardinality({t \in Tasks : InSection(t)}) <= 1

\* C2: two calls of ensure_server_running that overlap while the backend is
\* unreachable spawn one child between them, not one each.
C2_OverlappingCallsSpawnOnce ==
    \A t, u \in Tasks :
        (t # u /\ InSection(t) /\ InSection(u)) => CallSpawns(t) + CallSpawns(u) <= 1

\* C3: at most one live supervised child exists: the children that were spawned
\* and were neither sent a termination signal nor exited are at most the one
\* the handle wa_process refers to.
C3_AtMostOneLiveChild ==
    Cardinality({k \in Children : child[k] = "live"}) <= 1

\* C4: when broadcast returns, every websocket that was registered when it was
\* called (and is still registered) has been sent the message, whatever other
\* tasks registered or unregistered while it was suspended in a send.
C4_BroadcastReachesAllRegistered ==
    bState = "returned" => \A ws \in bSnap : ws \in Registered => ws \in bGot

\* C5: when a send of broadcast fails, every other websocket registered at call
\* time whose client is still connected has nevertheless been sent the message.
C5_FailureDoesNotAbortOthers ==
    bState = "raised" =>
        \A ws \in bSnap \ bFail : (ws \in Registered /\ ws \in open) => ws \in bGot

\* C6: a websocket whose send failed during broadcast is not in the registry
\* once that broadcast has ended.
C6_FailedConnectionUnregistered ==
    bState = "raised" => bFail \cap Registered = {}

\* C7: disconnect of a websocket that is not registered raises nothing and
\* leaves the registry as it was.
C7_DisconnectIdempotent ==
    (mgrCall.op = "disconnect" /\ ~mgrCall.present) =>
        (~mgrCall.raised /\ active_connections = mgrCall.before)

\* C8: once an iteration of the watcher has ended with an error (raised by
\* broadcast or by ensure_server_running), the watcher task has not ended: it is
\* in its asyncio.sleep(5) or inside a later iteration.
C8_WatcherSurvivesErrors ==
    wLast = "error" => pc[Watcher] \in {"sleep", "send", "kill", "settle"}

\* C8 witness: an iteration ended with an error and a later iteration is
\* under way.
C8_Witness ==
    /\ wLast = "error"
    /\ pc[Watcher] \in {"send", "kill", "settle"}

\* C9: after a watcher iteration that found the login flag, every websocket
\* that was registered when the iteration began, is still registered and whose
\* client is still connected has been sent "login_success".
C9_LoginPushReachesAll ==
    (wLogged /\ pc[Watcher] = "sleep" /\ wLast # "none") =>
        \A ws \in bSnap : (ws \in Registered /\ ws \in open) => ws \in bGot

\* C10: a failing subprocess.Popen makes ensure_server_running return False: no
\* exception leaves it, neither into a request handler (answered 500) nor into
\* the startup handler (the service does not start).
C10_SpawnFailureReturnsFalse ==
    /\ pc[Startup] # "crashed"
    /\ \A r \in Reqs : resp[r] # "500"

\* C11: every outage of the backend heals without a user: from any state in
\* which the backend is unreachable, the login flag present or not, the backend
\* answers again or the watcher calls ensure_server_running in some later
\* iteration (unless the service did not survive its startup).
C11_WatcherHealsEveryOutage ==
    [](~reachable => <>(reachable \/ wEnsured \/ ~Alive))

\* C12: every answer of GET /status is built in that call from the state as it
\* is then: logged_in is the presence of the flag, qr_available the presence of
\* the image, server_running the answer of the probe; so server_running is
\* false when the probe fails, whatever artifacts exist, and all three are
\* false when the backend is unreachable and no artifact exists.
C12_StatusIsFreshSnapshot ==
    [][snapNo' # snapNo =>
          /\ snap' = [logged_in |-> flag, qr_available |-> qr,
                      server_running |-> reachable]
          /\ ~reachable => ~snap'.server_running
          /\ (~reachable /\ ~qr /\ ~flag) => snap' = NoSnap]_vars

\* C12 witness: GET /status answered server_running false with both artifacts
\* present, while the handle refers to a child.
C12_Witness ==
    /\ snapNo = 1
    /\ ~snap.server_running
    /\ snap.logged_in
    /\ snap.qr_available
    /\ wa_process # 0

\* C13: GET /qr answers 200 or 404 and nothing else: 200 when it found the
\* image, 404 when the image was absent at the start and still absent after its
\* one call of ensure_server_running, whether or not the backend came up.
C13_QrAnswers200Or404 ==
    \A r \in Reqs : kind[r] = "qr" => resp[r] \in {"none", "200 qr", "404"}

\* C14: a proxy request that has been answered got 503 exactly when
\* ensure_server_running returned false, and then made no backend call; when
\* ensure_server_running returned true it made the backend call, and a failed
\* call was answered 500.
C14_ProxyGate ==
    \A r \in Reqs :
        (kind[r] = "proxy" /\ pc[r] = "idle") =>
            /\ resp[r] = "503" <=> ens[r] = "false"
            /\ resp[r] = "503" => backend[r] = "none"
            /\ ens[r] = "true" => backend[r] # "none"
            /\ (ens[r] = "true" /\ backend[r] = "failed") => resp[r] = "500"

\* C14 witness: a proxy request woke from the settle delay of its own spawn,
\* found the backend still unreachable and was answered 503 with no backend
\* call.
C14_Witness ==
    \E r \in Reqs :
        /\ kind[r] = "proxy"
        /\ pc[r] = "idle"
        /\ resp[r] = "503"
        /\ ens[r] = "false"
        /\ backend[r] = "none"

\* C15: a client disconnect (the step that ends the handler of ws in its except
\* clause) unregisters ws and nothing else: every other registered websocket
\* stays registered and its handler stays where it is, and no task position
\* changes, so the watcher goes on and a call of ensure_server_running in
\* progress stays in progress, with the handle, the children and the artifacts
\* untouched.
C15_DisconnectIsLocal ==
    [][\A ws \in Conns :
          (wsPc[ws] = "recv" /\ wsPc'[ws] = "ended") =>
              /\ ws \notin Range(active_connections')
              /\ \A o \in Conns \ {ws} :
                    /\ o \in Registered => o \in Range(active_connections')
                    /\ wsPc'[o] = wsPc[o]
              /\ pc' = pc
              /\ UNCHANGED <<supVars, wLast>>]_vars

\* C15 witness: the handler of one websocket has ended, another websocket is
\* still registered and the watcher is inside ensure_server_running.
C15_Witness ==
    \E ws, o \in Conns :
        /\ wsPc[ws] = "ended"
        /\ o \in Registered
        /\ InSection(Watcher)

\* C16: a call of ensure_server_running whose first probe succeeds returns true
\* and changes nothing: the handle, the children (no signal, no spawn) and the
\* two artifacts are as before.
C16_ProbeSuccessIsNoOp ==
    [][/\ (StartupEvent /\ reachable) =>
              (pc'[Startup] = "done" /\ UNCHANGED supVars)
       /\ (WatcherIter /\ wEnsured' /\ reachable') =>
              (wLast' = "ok" /\ UNCHANGED supVars)
       /\ \A r \in Reqs :
              (StartLogin(r) /\ reachable) =>
                  (ens'[r] = "true" /\ UNCHANGED supVars)]_vars

\* C16 witness: GET /start got true from ensure_server_running and no child was
\* ever spawned, the handle is None and both artifacts are still there.
C16_Witness ==
    \E r \in Reqs :
        /\ kind[r] = "start"
        /\ ens[r] = "true"
        /\ spawned = 0
        /\ wa_process = 0
        /\ qr
        /\ flag

\* C17: every step that spawns a child also leaves both artifacts absent: the
\* removal and the Popen are in one step of one task, with no suspension
\* between them.
C17_ArtifactsClearedAtSpawn ==
    [][spawned' # spawned => (~qr' /\ ~flag')]_vars

\* C17 witness: a call has just spawned the second child and waits in its
\* settle delay, with both artifacts absent.
C17_Witness ==
    \E t \in Tasks :
        /\ pc[t] = "settle"
        /\ spawned = 2
        /\ wa_process = 2
        /\ ~qr
        /\ ~flag

\* C18: an iteration of the watcher calls ensure_server_running exactly when
\* its probe failed and it found no login flag; an iteration that found the
\* flag (and broadcast) does not call it, at its start or after its broadcast.
C18_EnsureIffDownAndLoggedOut ==
    [][/\ WatcherIter => (wEnsured' <=> (~reachable /\ ~flag))
       /\ (WatcherIter \/ WatcherSendDone) => (wLogged' => ~wEnsured')]_vars

\* C18 witness: an iteration that found the backend down and no flag is inside
\* ensure_server_running.
C18_Witness ==
    /\ wEnsured
    /\ ~wLogged
    /\ InSection(Watcher)

\* C19: a call of ensure_server_running that sent the termination signal and
\* wakes from asyncio.sleep(1) clears the artifacts and spawns a new child the
\* handle then refers to, and a call that wakes from its settle delay returns
\* the probe.
C19_KillThenRespawn ==
    [][\A t \in Tasks :
          (pc[t] = "kill" /\ pc'[t] # "kill") =>
              /\ pc'[t] = "settle"
              /\ spawned' = spawned + 1
              /\ wa_process' = spawned'
              /\ ~qr'
              /\ ~flag']_vars

\* C20: once the handler of a websocket has ended, by a client disconnect or by
\* an error of send_json, the websocket is not in the registry.
C20_EndedHandlerUnregistered ==
    \A ws \in Conns : wsPc[ws] \in {"ended", "error"} => ws \notin Registered

\* C21 as stated: once the service serves requests, no step taken while the
\* login flag is present deletes the flag or puts a task into the wait that
\* follows the termination signal to the tracked child.
C21_NoTeardownWhileLoggedIn ==
    [][(Serving /\ flag) =>
          /\ flag'
          /\ \A t \in Tasks : pc'[t] = "kill" => pc[t] = "kill"]_vars

\* C21, amended: a watcher iteration that reads the login flag as present
\* leaves the handle, the children and both artifacts as they are: it sends no
\* termination signal, deletes no flag and spawns nothing.
C21_WatcherSparesLoggedInSession ==
    [][(WatcherIter /\ wLogged') => UNCHANGED supVars]_vars

\* C21 witness: the last watcher iteration found the flag and ended without
\* calling ensure_server_running, the backend is unreachable, and the flag and
\* the live tracked child are still there.
C21_Witness ==
    /\ wLogged
    /\ wLast = "ok"
    /\ ~wEnsured
    /\ pc[Watcher] = "sleep"
    /\ ~reachable
    /\ flag
    /\ wa_process # 0
    /\ child[wa_process] = "live"

====
